---- MODULE Spec2Model ----
(***************************************************************************)
(* Replica synchronisation of the surgery store (cirurgias):               *)
(*   src/github_sync.py  upload_db_to_github, download_db_from_github,     *)
(*                       safe_upload_with_merge                            *)
(*   src/db_merge.py     merge_sqlite_dbs                                  *)
(*   src/db.py           insert_or_update_cirurgia                         *)
(*                                                                         *)
(* Two specifications:                                                     *)
(*   Spec       the clients, the remote file and the sync runs             *)
(*   SpecMerge  merge_sqlite_dbs applied to stores drawn from bounded sets *)
(***************************************************************************)
EXTENDS Integers, FiniteSets, Sequences, TLC

(***************************************************************************)
(* Bounds                                                                  *)
(***************************************************************************)
MaxTime == 2
\* timestamps of the stores SpecMerge draws: 1..MaxTime

MaxClock == 1
\* local upserts in one behaviour of Spec: the wall clock ticks once per upsert

MaxRuns == 3
\* runs of safe_upload_with_merge, of all clients, in one behaviour of Spec

Clients == {"c1", "c2"}

Keys == {"K1", "K2"}
\* natural keys (Hospital, Atendimento, Paciente, Prestador, Data_Cirurgia)

ObsVals == {"oA", "oB"}
\* values of the content field Observacoes

PayloadObs == {"oA"}
\* Observacoes of the payloads the clients of Spec upsert

(***************************************************************************)
(* SQL values.  TEXT timestamps compare as strings; they are modelled by   *)
(* integers in the same order, 0 being the empty string ''.                *)
(***************************************************************************)
Null == -1

EmptyText == 0

CreatedVals == {Null, EmptyText, 1}
\* created_at values of the stores SpecMerge draws

UpdatedVals == {Null} \cup (1..MaxTime)

\* a row of table cirurgias: natural key, content, created_at, updated_at
CirurgiaRows ==
  [key : Keys, Observacoes : ObsVals, created_at : CreatedVals, updated_at : UpdatedVals]

KeysOf(rows) == {r.key : r \in rows}

RowOf(rows, k) == CHOOSE r \in rows : r.key = k

\* UNIQUE(Hospital, Atendimento, Paciente, Prestador, Data_Cirurgia)
UniqueKeys(rows) == \A r1, r2 \in rows : r1.key = r2.key => r1 = r2

EmptyStore == {}

(***************************************************************************)
(* COALESCE(a, b): the first argument that is not NULL                     *)
(***************************************************************************)
Coalesce(a, b) == IF a # Null THEN a ELSE b

(***************************************************************************)
(* CASE ... END AS updated_at_resolved of the cirurgias statement          *)
(***************************************************************************)
UpdatedAtResolved(l_updated, r_updated) ==
  IF r_updated = Null THEN l_updated
  ELSE IF l_updated = Null THEN r_updated
  ELSE IF l_updated > r_updated THEN l_updated
  ELSE r_updated

(***************************************************************************)
(* The row the SELECT of the cirurgias statement yields for local row l:   *)
(* r is the joined row of the output (LEFT JOIN), all NULL when no row of  *)
(* the output has l's key.                                                 *)
(***************************************************************************)
ExcludedRow(l, base) ==
  LET matched   == l.key \in KeysOf(base)
      r_created == IF matched THEN RowOf(base, l.key).created_at ELSE Null
      r_updated == IF matched THEN RowOf(base, l.key).updated_at ELSE Null
  IN  [key         |-> l.key,
       Observacoes |-> l.Observacoes,
       created_at  |-> Coalesce(l.created_at, r_created),
       updated_at  |-> UpdatedAtResolved(l.updated_at, r_updated)]

(***************************************************************************)
(* ON CONFLICT(key) DO UPDATE SET <content> = excluded.<content>,          *)
(* updated_at = excluded.updated_at: created_at is not in the SET list.    *)
(***************************************************************************)
DoUpdateSet(existing, excluded) ==
  [key         |-> existing.key,
   Observacoes |-> excluded.Observacoes,
   created_at  |-> existing.created_at,
   updated_at  |-> excluded.updated_at]

\* INSERT ... SELECT ... ON CONFLICT DO UPDATE on table cirurgias
UpsertCirurgias(base, local) ==
  {r \in base : r.key \notin KeysOf(local)}
    \cup {IF l.key \in KeysOf(base)
            THEN DoUpdateSet(RowOf(base, l.key), ExcludedRow(l, base))
            ELSE ExcludedRow(l, base) : l \in local}

(***************************************************************************)
(* The four statements of merge_sqlite_dbs, in order.  Each is             *)
(*   INSERT INTO t (...) SELECT ... FROM <from> ON CONFLICT(...) DO UPDATE *)
(* join_on: the FROM clause ends with a join constraint (JOIN ... ON ...), *)
(* where:   the SELECT has a WHERE clause.                                 *)
(***************************************************************************)
MergeStatements ==
  << [table |-> "pacientes_unicos_por_dia_prestador", join_on |-> FALSE, where |-> FALSE],
     [table |-> "procedimento_tipos",                 join_on |-> FALSE, where |-> FALSE],
     [table |-> "cirurgia_situacoes",                 join_on |-> FALSE, where |-> FALSE],
     [table |-> "cirurgias",                          join_on |-> TRUE,  where |-> FALSE] >>

(***************************************************************************)
(* SQLite's parser on an upsert that takes its rows from a SELECT          *)
(* (lang_upsert, "Parsing Ambiguity"): after a FROM item that has no join  *)
(* constraint and no WHERE clause, the keyword ON is taken as the ON       *)
(* clause of the join, CONFLICT(...) as its expression, and the statement  *)
(* is rejected with: near "DO": syntax error.                              *)
(***************************************************************************)
StatementParses(s) == s.where \/ s.join_on

\* index of the first statement the engine rejects, 0 when all are accepted
FirstRejected ==
  IF \E i \in 1..Len(MergeStatements) : ~StatementParses(MergeStatements[i])
    THEN CHOOSE i \in 1..Len(MergeStatements) :
           /\ ~StatementParses(MergeStatements[i])
           /\ \A j \in 1..(i-1) : StatementParses(MergeStatements[j])
    ELSE 0

(***************************************************************************)
(* merge_sqlite_dbs(local_path, remote_path, output_path):                 *)
(* copy the remote to the output, then run the statements in one           *)
(* transaction (eng.begin()): a statement that fails raises, and the       *)
(* transaction is rolled back, leaving the copy of the remote.             *)
(***************************************************************************)
merge_sqlite_dbs(local, remote) ==
  IF FirstRejected # 0
    THEN [raised |-> TRUE,  failed_at |-> FirstRejected, output |-> remote]
    ELSE [raised |-> FALSE, failed_at |-> 0, output |-> UpsertCirurgias(remote, local)]

(***************************************************************************)
(* The three tables merged by field overwrite (statements 1 to 3).  A row  *)
(* is [key, over, other]:                                                  *)
(*   pacientes_unicos_por_dia_prestador: key = (Hospital, Atendimento,     *)
(*     Paciente, Prestador, Data), over = (Aviso, Convenio, Quarto),       *)
(*     other = (Ano, Mes, Dia);                                            *)
(*   procedimento_tipos, cirurgia_situacoes: key = nome,                   *)
(*     over = (ativo, ordem), other = id.                                  *)
(***************************************************************************)
OverwriteTables ==
  {"pacientes_unicos_por_dia_prestador", "procedimento_tipos", "cirurgia_situacoes"}

OverVals == {"vA", "vB"}

OtherVals == {1, 2}

OverwriteRows == [key : Keys, over : OverVals, other : OtherVals]

\* id INTEGER PRIMARY KEY AUTOINCREMENT: the catalogs' other column is not
\* in the INSERT column list, the engine assigns it
HasRowId(table) == table \in {"procedimento_tipos", "cirurgia_situacoes"}

\* the statement of merge_sqlite_dbs that merges the table
StatementOf(table) ==
  CHOOSE i \in 1..Len(MergeStatements) : MergeStatements[i].table = table

\* ON CONFLICT(key) DO UPDATE SET <over> = excluded.<over>
DoUpdateSetOverwrite(existing, excluded) == [existing EXCEPT !.over = excluded.over]

\* the ids AUTOINCREMENT gives the rows inserted for keys: above every id
\* of the table, all different
NewIds(base, keys) ==
  LET top == IF base = {} THEN 0
             ELSE CHOOSE n \in {r.other : r \in base} : \A r \in base : r.other <= n
  IN  CHOOSE f \in [keys -> (top + 1)..(top + Cardinality(keys))] :
        \A k1, k2 \in keys : f[k1] = f[k2] => k1 = k2

\* INSERT ... SELECT ... FROM localdb.<table> ON CONFLICT DO UPDATE
UpsertOverwrite(table, base, local) ==
  LET fresh == KeysOf(local) \ KeysOf(base)
      ids   == NewIds(base, fresh)
  IN  {r \in base : r.key \notin KeysOf(local)}
        \cup {IF l.key \in KeysOf(base)
                THEN DoUpdateSetOverwrite(RowOf(base, l.key), l)
              ELSE IF HasRowId(table) THEN [l EXCEPT !.other = ids[l.key]]
              ELSE l : l \in local}

\* merge_sqlite_dbs, the table `table` of its output: the whole merge is
\* one transaction, a rejected statement leaves the copy of the remote
MergedOverwriteTable(table, local, remote) ==
  IF FirstRejected # 0
    THEN [raised |-> TRUE,  failed_at |-> FirstRejected, output |-> remote]
    ELSE [raised |-> FALSE, failed_at |-> 0, output |-> UpsertOverwrite(table, remote, local)]

(***************************************************************************)
(* State                                                                   *)
(***************************************************************************)
VARIABLES
  remote,     \* the remote file: [exists, rows, sha]
  nextRev,    \* the next revision the host issues
  clock,      \* datetime.now() of the latest local upsert (0: none yet)
  localFile,  \* localFile[c]: the file at local_db_path, [kind, rows]
  gh_sha,     \* gh_sha[c]: the revision token the caller keeps
  run,        \* run[c]: the locals of safe_upload_with_merge and its history
  nruns,      \* runs of safe_upload_with_merge started so far
  m_local,    \* SpecMerge: the local store given to merge_sqlite_dbs
  m_remote,   \* SpecMerge: the remote store given to merge_sqlite_dbs
  m_result,   \* SpecMerge: [called, raised, failed_at, output]
  o_table,    \* SpecOverwrite: the field-overwrite table looked at
  o_local,    \* SpecOverwrite: its rows in the local store
  o_remote,   \* SpecOverwrite: its rows in the remote store
  o_result,   \* SpecOverwrite: [called, raised, failed_at, output]
  f_reply,    \* SpecFetch: the answer to the GET of download_db_from_github
  f_result,   \* SpecFetch: [called, raised, ok, sha, wrote]
  ckpt,       \* SpecCheckpoint: the store file, the engine handle, the calls made
  aviso,      \* SpecAviso: [called, df, out] of _normalize_and_resolve_aviso_conflicts
  cat         \* SpecCatalog: the catalogs and references given to merge_sqlite_dbs

vars == <<remote, nextRev, clock, localFile, gh_sha, run, nruns, m_local, m_remote, m_result,
         o_table, o_local, o_remote, o_result, f_reply, f_result, ckpt, aviso, cat>>

syncVars == <<remote, nextRev, clock, localFile, gh_sha, run, nruns>>

mergeVars == <<m_local, m_remote, m_result, o_table, o_local, o_remote, o_result,
               f_reply, f_result, ckpt, aviso, cat>>

fetchVars == <<f_reply, f_result>>

cirurgiasVars == <<m_local, m_remote, m_result>>

overwriteVars == <<o_table, o_local, o_remote, o_result>>

\* Python None for a revision token
NoSha == 0

\* the file at local_db_path: absent, 0 bytes, or a store
MissingFile == [kind |-> "missing", rows |-> {}]

ZeroByteFile == [kind |-> "zero", rows |-> {}]

DbFile(rows) == [kind |-> "db", rows |-> rows]

\* transport or host failures of one HTTP call: URLError (0) and a 5xx
FaultStatuses == {0, 500}

\* the host's status for a PUT without revision on a locator that holds content
MissingShaStatuses == {409, 422}

\* the body of an HTTP answer: its bytes, and whether they decode as UTF-8
EmptyBody == [text |-> "", utf8 |-> TRUE]

\* the bodies a PUT that is not applied is answered with
ErrorBodies == {[text |-> "diag", utf8 |-> TRUE], [text |-> "raw", utf8 |-> FALSE]}

NoValue == [ok |-> FALSE, status |-> -1, message |-> ""]

\* the run has not ended
NoResult == [kind |-> "none", value |-> NoValue]

\* the tuple safe_upload_with_merge returns with _return_details=True:
\* (ok, status, message)
Returned(ok, status, message) ==
  [kind |-> "returned", value |-> [ok |-> ok, status |-> status, message |-> message]]

\* an exception of the HTTP library leaves safe_upload_with_merge
Raised == [kind |-> "raised", value |-> NoValue]

IdleRun ==
  [pc |-> "idle", prev_sha |-> NoSha, orig |-> MissingFile, site |-> 0,
   raw |-> {}, sha_to_use |-> NoSha,
   preflight_status |-> -1, preflight_sha |-> NoSha,
   status |-> -1, new_sha |-> NoSha,
   downloaded |-> FALSE, tmp_remote |-> {}, remote_sha2 |-> NoSha,
   merge |-> [raised |-> FALSE, failed_at |-> 0, output |-> {}],
   status2 |-> -1, new_sha2 |-> NoSha,
   puts |-> 0, downloads |-> 0, merges |-> 0, put_shas |-> <<>>,
   unlinked |-> {},
   refused |-> FALSE, put_body |-> [text |-> "", utf8 |-> TRUE], msg |-> "",
   accepted |-> FALSE, replaced |-> [exists |-> FALSE, rows |-> {}, sha |-> NoSha],
   published |-> [exists |-> FALSE, rows |-> {}, sha |-> NoSha],
   result |-> NoResult]

(***************************************************************************)
(* The remote host (GitHub Contents API), as section 6 of the              *)
(* specification states its interface.                                     *)
(***************************************************************************)
\* GET <locator>: 200 with content and revision, or 404
HostGet(rem) ==
  IF rem.exists
    THEN [status |-> 200, rows |-> rem.rows, sha |-> rem.sha]
    ELSE [status |-> 404, rows |-> {}, sha |-> NoSha]

\* PUT <locator>: does the host accept a PUT carrying revision sha (NoSha: none)?
HostAccepts(rem, sha) ==
  IF rem.exists THEN sha # NoSha /\ sha = rem.sha ELSE sha = NoSha

\* the status of an accepted PUT: 200 for an update, 201 for a create
HostAcceptStatus(rem) == IF rem.exists THEN 200 ELSE 201

\* the statuses of a refused PUT: 409 on a revision mismatch
HostRefuseStatuses(rem, sha) ==
  IF rem.exists /\ sha = NoSha THEN MissingShaStatuses ELSE {409}

\* variant: a validation rejection is taken for a conflict too
IsConflictOrRejected(status) == status \in {409, 422}

\* if status == 409:
IsConflict(status) == status = 409

\* variant: success is decided on ok alone
UploadSucceededOkOnly(ok, new_sha) == ok

(***************************************************************************)
(* safe_upload_with_merge, the test of a successful upload                 *)
(*   if ok and new_sha:            if ok2 and new_sha2:                    *)
(***************************************************************************)
UploadSucceeded(ok, new_sha) == ok /\ new_sha # NoSha

(***************************************************************************)
(* safe_upload_with_merge after upload_db_to_github has returned           *)
(* (ok, new_sha, status, msg): r.site tells the first upload (1) from the  *)
(* upload after the merge (2).                                             *)
(***************************************************************************)
UploadReturn(r, ok, new_sha, status) ==
  IF r.site = 1
    THEN LET r1 == [r EXCEPT !.status = status, !.new_sha = new_sha]
         IN  IF UploadSucceeded(ok, new_sha)
               THEN [r1 EXCEPT !.pc = "done", !.result = Returned(TRUE, status, "Upload OK")]
             ELSE IF IsConflict(status)
               THEN [r1 EXCEPT !.pc = "download"]
             ELSE [r1 EXCEPT !.pc = "done",
                             !.result = Returned(FALSE, status, "Falha inicial de upload")]
    ELSE LET r2 == [r EXCEPT !.status2 = status, !.new_sha2 = new_sha,
                             !.unlinked = {"tmp_remote"}]
         IN  IF UploadSucceeded(ok, new_sha)
               THEN [r2 EXCEPT !.pc = "done",
                               !.result = Returned(TRUE, status, "Upload apos merge OK")]
               ELSE [r2 EXCEPT !.pc = "done",
                               !.result = Returned(FALSE, status, "Falha ao subir apos merge")]

\* variant: a file of 0 bytes is sent like any other
IsEmptyPayloadNever(file) == FALSE

\* if len(raw) == 0:
IsEmptyPayload(file) == file.kind = "zero"

\* variant: the given revision is dropped, every upload probes the remote
ShaToUseIgnoringToken(prev_sha) == NoSha

\* sha_to_use = prev_sha
ShaToUse(prev_sha) == prev_sha

(***************************************************************************)
(* upload_db_to_github up to its first remote call: the file must exist    *)
(* and hold bytes; it is read (raw) and the revision to send is chosen.    *)
(***************************************************************************)
UploadBegin(r, file, prev_sha, site) ==
  LET r0 == [r EXCEPT !.site = site]
  IN  IF file.kind = "missing"
        THEN [UploadReturn(r0, FALSE, NoSha, 0) EXCEPT !.msg = "Local db file not found"]
      ELSE IF IsEmptyPayload(file)
        THEN [UploadReturn(r0, FALSE, NoSha, 422) EXCEPT
                !.msg = "Local db file is empty (0 bytes)"]
      ELSE [r0 EXCEPT !.raw = file.rows,
                      !.sha_to_use = ShaToUse(prev_sha),
                      !.pc = IF ShaToUse(prev_sha) = NoSha THEN "preflight" ELSE "put"]

\* variant: a probe that found nothing still sends a revision
ShaFromPreflightPlaceholder(status_get, body_sha) ==
  IF status_get = 200 THEN body_sha ELSE 1

\* variant: a publish without token never sends a revision (plain create)
ShaFromPreflightNone(status_get, body_sha) == NoSha

(***************************************************************************)
(* The revision the preflight GET gives: the body's sha on 200 (None when  *)
(* the body does not parse), None on 404.                                  *)
(***************************************************************************)
ShaFromPreflight(status_get, body_sha) ==
  IF status_get = 200 THEN body_sha ELSE NoSha

\* prev_sha of the upload after the merge: prev_sha=remote_sha2
RepublishSha(remote_sha2, prev_sha) == remote_sha2

\* variant: the except branch of the merge unlinks local_db_path
LocalAfterMergeUnlinked(file, m) == IF m.raised THEN MissingFile ELSE DbFile(m.output)

\* variant: the merge is built in place, at local_db_path
LocalAfterMergeInPlace(file, m) == DbFile(m.output)

\* the local file after the try block: shutil.move only after the merge returned
LocalAfterMerge(file, m) == IF m.raised THEN file ELSE DbFile(m.output)

\* variant: a failed download is tried again
AfterDownloadFailureRetry(r) == [r EXCEPT !.pc = "download"]

\* safe_upload_with_merge when the download after the 409 failed
AfterDownloadFailure(r) ==
  [r EXCEPT !.pc = "done", !.unlinked = {"tmp_remote"},
            !.result = Returned(FALSE, 409, "Conflito 409, mas falha ao baixar remoto")]

\* variant: the except branch leaves the merge output in place
AfterMergeFailureKeepsOutput(r) ==
  [r EXCEPT !.pc = "done", !.unlinked = {"tmp_remote"},
            !.result = Returned(FALSE, 409, "Falha no merge")]

\* variant: a failed merge is followed by the second upload all the same
AfterMergeFailureRepublish(r) ==
  [r EXCEPT !.site = 2, !.raw = r.tmp_remote, !.sha_to_use = r.remote_sha2, !.pc = "put"]

\* safe_upload_with_merge, the except branch of the merge: both temporary
\* files are unlinked and the run returns
AfterMergeFailure(r) ==
  [r EXCEPT !.pc = "done", !.unlinked = {"tmp_merged", "tmp_remote"},
            !.result = Returned(FALSE, 409, "Falha no merge")]

(***************************************************************************)
(* Caller-side operations on an idle client                                *)
(***************************************************************************)
\* download_db_from_github(..., local_db_path, return_sha=True) answered 200
CallerDownload(c) ==
  /\ run[c].pc = "idle"
  /\ remote.exists
  /\ localFile' = [localFile EXCEPT ![c] = DbFile(remote.rows)]
  /\ gh_sha' = [gh_sha EXCEPT ![c] = remote.sha]
  /\ UNCHANGED <<remote, nextRev, clock, run, nruns, mergeVars>>

\* the row insert_or_update_cirurgia leaves for key k: created_at and
\* updated_at are now on insert, created_at is kept on conflict
UpsertedRow(rows, k, obs, now) ==
  [key         |-> k,
   Observacoes |-> obs,
   created_at  |-> IF k \in KeysOf(rows) THEN RowOf(rows, k).created_at ELSE now,
   updated_at  |-> now]

insert_or_update_cirurgia(rows, k, obs, now) ==
  {r \in rows : r.key # k} \cup {UpsertedRow(rows, k, obs, now)}

\* now = datetime.now().isoformat(timespec="seconds")
Upsert(c) ==
  /\ run[c].pc = "idle"
  /\ localFile[c].kind = "db"
  /\ clock < MaxClock
  /\ clock' = clock + 1
  /\ \E k \in Keys, obs \in PayloadObs :
       localFile' = [localFile EXCEPT ![c] =
                       DbFile(insert_or_update_cirurgia(localFile[c].rows, k, obs, clock + 1))]
  /\ UNCHANGED <<remote, nextRev, gh_sha, run, nruns, mergeVars>>

(***************************************************************************)
(* safe_upload_with_merge(..., prev_sha = the caller's token): entry and   *)
(* the local part of the first upload_db_to_github                         *)
(***************************************************************************)
StartSync(c) ==
  /\ run[c].pc = "idle"
  /\ nruns < MaxRuns
  /\ nruns' = nruns + 1
  /\ run' = [run EXCEPT ![c] =
               UploadBegin([IdleRun EXCEPT !.prev_sha = gh_sha[c], !.orig = localFile[c]],
                           localFile[c], gh_sha[c], 1)]
  /\ UNCHANGED <<remote, nextRev, clock, localFile, gh_sha, mergeVars>>

(***************************************************************************)
(* upload_db_to_github, the preflight GET (only when no revision is given) *)
(***************************************************************************)
\* variant: a probe that failed is followed by a PUT without revision
AfterPreflightFailureCreates(r, status_get) ==
  [r EXCEPT !.preflight_status = status_get, !.sha_to_use = NoSha, !.pc = "put"]

\* status_get is neither 200 nor 404: return (False, None, status_get, msg)
AfterPreflightFailure(r, status_get) ==
  [UploadReturn([r EXCEPT !.preflight_status = status_get], FALSE, NoSha, status_get)
     EXCEPT !.msg = "Preflight GET failed"]

PreflightGet(c) ==
  /\ run[c].pc = "preflight"
  /\ \/ \E body_ok \in BOOLEAN :
          LET g        == HostGet(remote)
              body_sha == IF body_ok THEN g.sha ELSE NoSha
          IN  run' = [run EXCEPT ![c] =
                        [@ EXCEPT !.preflight_status = g.status,
                                  !.preflight_sha = body_sha,
                                  !.sha_to_use = ShaFromPreflight(g.status, body_sha),
                                  !.pc = "put"]]
     \/ \E st \in FaultStatuses :
          run' = [run EXCEPT ![c] = AfterPreflightFailure(@, st)]
     \/ run' = [run EXCEPT ![c] = [@ EXCEPT !.pc = "done", !.result = Raised]]
  /\ UNCHANGED <<remote, nextRev, clock, localFile, gh_sha, nruns, mergeVars>>

(***************************************************************************)
(* upload_db_to_github, the PUT and the decoding of its answer             *)
(***************************************************************************)
\* the PUT is sent with the chosen revision
PutSent(r) == [r EXCEPT !.puts = @ + 1, !.put_shas = Append(@, r.sha_to_use)]

\* variant: the body is handed on as it came
BodyDetailVerbatim(body) == body.text

\* msg of a PUT that did not succeed: content_put.decode("utf-8"), and ""
\* when the decoding raises
BodyDetail(body) == IF body.utf8 THEN body.text ELSE ""

\* upload_db_to_github returns (False, None, status_put, msg)
PutError(r, status, body) ==
  [UploadReturn(PutSent(r), FALSE, NoSha, status) EXCEPT
     !.put_body = body, !.msg = BodyDetail(body)]


\* variant: the payload carries no content
PayloadContentEmpty(raw) == {}

\* payload["content"] = base64.b64encode(raw), which the host decodes and
\* stores: the content stored is the bytes read
PayloadContent(raw) == raw

\* the host applies the PUT and answers; new_sha is None when the body
\* does not parse or holds no content.sha
PutAccepted(c) ==
  /\ HostAccepts(remote, run[c].sha_to_use)
  /\ remote' = [exists |-> TRUE, rows |-> PayloadContent(run[c].raw), sha |-> nextRev]
  /\ nextRev' = nextRev + 1
  /\ LET r == [PutSent(run[c]) EXCEPT !.accepted = TRUE, !.replaced = remote,
                                      !.published = remote']
     IN  \/ \E body_ok \in BOOLEAN :
              run' = [run EXCEPT ![c] =
                        [UploadReturn(r, TRUE, IF body_ok THEN nextRev ELSE NoSha,
                                      HostAcceptStatus(remote)) EXCEPT !.msg = "OK"]]
         \* the answer is lost: URLError (status 0) or an exception of requests
         \/ run' = [run EXCEPT ![c] =
                      PutError([run[c] EXCEPT !.accepted = TRUE, !.replaced = remote,
                                              !.published = remote'], 0, EmptyBody)]
         \/ run' = [run EXCEPT ![c] = [r EXCEPT !.pc = "done", !.result = Raised]]

PutRefused(c) ==
  /\ ~HostAccepts(remote, run[c].sha_to_use)
  /\ \E st \in HostRefuseStatuses(remote, run[c].sha_to_use), body \in ErrorBodies :
       run' = [run EXCEPT ![c] = PutError([@ EXCEPT !.refused = TRUE], st, body)]
  /\ UNCHANGED <<remote, nextRev>>

\* the PUT does not reach the host, or the host fails
PutFailed(c) ==
  /\ \/ run' = [run EXCEPT ![c] = PutError(@, 0, EmptyBody)]
     \/ \E st \in FaultStatuses \ {0}, body \in ErrorBodies :
          run' = [run EXCEPT ![c] = PutError(@, st, body)]
     \/ run' = [run EXCEPT ![c] = [PutSent(@) EXCEPT !.pc = "done", !.result = Raised]]
  /\ UNCHANGED <<remote, nextRev>>

Put(c) ==
  /\ run[c].pc = "put"
  /\ (PutAccepted(c) \/ PutRefused(c) \/ PutFailed(c))
  /\ UNCHANGED <<clock, localFile, gh_sha, nruns, mergeVars>>

(***************************************************************************)
(* safe_upload_with_merge after a 409: download the remote to tmp_remote,  *)
(* then merge_sqlite_dbs(local, tmp_remote, tmp_merged) and shutil.move in *)
(* one try block, then the local part of the second upload_db_to_github.   *)
(* The GET is the only remote call of the step.                            *)
(***************************************************************************)
MergeAndReplace(c, r0) ==
  LET m == merge_sqlite_dbs(localFile[c].rows, r0.tmp_remote)
      r == [r0 EXCEPT !.merges = @ + 1, !.merge = m]
      f == LocalAfterMerge(localFile[c], m)
  IN  /\ localFile' = [localFile EXCEPT ![c] = f]
      /\ run' = [run EXCEPT ![c] =
                   IF m.raised
                     THEN AfterMergeFailure(r)
                     ELSE UploadBegin(r, f, RepublishSha(r.remote_sha2, r.prev_sha), 2)]

DownloadAndMerge(c) ==
  /\ run[c].pc = "download"
  /\ LET r == [run[c] EXCEPT !.downloads = @ + 1]
         g == HostGet(remote)
     IN  \/ /\ g.status = 200
            /\ MergeAndReplace(c, [r EXCEPT !.downloaded = TRUE,
                                            !.tmp_remote = g.rows,
                                            !.remote_sha2 = g.sha])
         \* 404, another status, a body that does not parse or holds no content
         \/ /\ run' = [run EXCEPT ![c] = AfterDownloadFailure(r)]
            /\ UNCHANGED localFile
         \/ /\ run' = [run EXCEPT ![c] = [r EXCEPT !.pc = "done", !.result = Raised]]
            /\ UNCHANGED localFile
  /\ UNCHANGED <<remote, nextRev, clock, gh_sha, nruns, mergeVars>>

\* the caller takes the result; the client is idle again
Return(c) ==
  /\ run[c].pc = "done"
  /\ run' = [run EXCEPT ![c] = IdleRun]
  /\ UNCHANGED <<remote, nextRev, clock, localFile, gh_sha, nruns, mergeVars>>

(***************************************************************************)
(* Spec: the clients and the remote file                                   *)
(***************************************************************************)
NoRemote == [exists |-> FALSE, rows |-> {}, sha |-> NoSha]

MergeIdle == [called |-> FALSE, raised |-> FALSE, failed_at |-> 0, output |-> {}]

\* no merge_sqlite_dbs call on its own is looked at
NoOverwriteCall ==
  /\ o_table = "pacientes_unicos_por_dia_prestador"
  /\ o_local = {} /\ o_remote = {} /\ o_result = MergeIdle

\* the answer of a host that holds no content at the locator
NotFoundReply ==
  [raises |-> FALSE, status |-> 404, json_ok |-> TRUE, has_content |-> FALSE, sha |-> NoSha]

FetchIdle == [called |-> FALSE, raised |-> FALSE, ok |-> FALSE, sha |-> NoSha, wrote |-> FALSE]

\* no download_db_from_github call on its own is looked at
NoFetchCall == f_reply = NotFoundReply /\ f_result = FetchIdle

\* the store file on disk: the logical writes held by the main file and
\* those held by the write-ahead log only
StoreFile(main, wal) == [exists |-> TRUE, main |-> main, wal |-> wal]

AbsentStoreFile == [exists |-> FALSE, main |-> {}, wal |-> {}]

\* the conditions the checkpoint runs under: module db imports, the fold of
\* the log goes through, PRAGMA optimize goes through
FairEnv == [db_importable |-> TRUE, fold_ok |-> TRUE, optimize_ok |-> TRUE]

CheckpointIdle ==
  [pc |-> "start", pre |-> AbsentStoreFile, file |-> AbsentStoreFile,
   engine |-> "none", env |-> FairEnv, raised |-> FALSE,
   after1 |-> [file |-> AbsentStoreFile, engine |-> "none"], raw |-> {}]

\* no _checkpoint_sqlite call on its own is looked at
NoCheckpointCall == ckpt = CheckpointIdle

\* a store as SpecCatalog looks at it: a catalog and the rows that refer to it
EmptyCatalogStore == [tipos |-> {}, cirurgias |-> {}]

CatalogIdle ==
  [called |-> FALSE, local |-> EmptyCatalogStore, remote |-> EmptyCatalogStore,
   raised |-> FALSE, output |-> EmptyCatalogStore]

\* no merge of catalogs is looked at
NoCatalogCall == cat = CatalogIdle

\* no _normalize_and_resolve_aviso_conflicts call is looked at
NoAvisoCall == aviso = [called |-> FALSE, df |-> <<>>, out |-> <<>>]

\* the clients have not run, there is no remote file
NoSync ==
  /\ remote = NoRemote /\ nextRev = 1 /\ clock = 0
  /\ localFile = [c \in Clients |-> DbFile(EmptyStore)]
  /\ gh_sha = [c \in Clients |-> NoSha]
  /\ run = [c \in Clients |-> IdleRun]
  /\ nruns = 0

Init ==
  /\ \/ remote = NoRemote /\ nextRev = 1
     \/ remote = [exists |-> TRUE, rows |-> EmptyStore, sha |-> 1] /\ nextRev = 2
  /\ clock = 0
  /\ localFile \in [Clients -> {DbFile(EmptyStore), ZeroByteFile, MissingFile}]
  /\ gh_sha = [c \in Clients |-> NoSha]
  /\ run = [c \in Clients |-> IdleRun]
  /\ nruns = 0
  /\ m_local = {} /\ m_remote = {} /\ m_result = MergeIdle
  /\ NoOverwriteCall
  /\ NoFetchCall
  /\ NoCheckpointCall
  /\ NoAvisoCall
  /\ NoCatalogCall

Next ==
  \E c \in Clients :
    \/ CallerDownload(c)
    \/ Upsert(c)
    \/ StartSync(c)
    \/ PreflightGet(c)
    \/ Put(c)
    \/ DownloadAndMerge(c)
    \/ Return(c)

Spec == Init /\ [][Next]_vars

(***************************************************************************)
(* SpecMerge: merge_sqlite_dbs on every pair of stores of the bounded set  *)
(***************************************************************************)
\* per key: no row, or the columns of its one row
RowChoices ==
  {[present |-> FALSE, Observacoes |-> "oA", created_at |-> Null, updated_at |-> Null]}
    \cup [present : {TRUE}, Observacoes : ObsVals,
          created_at : CreatedVals, updated_at : UpdatedVals]

\* the stores that satisfy the unique constraint: at most one row per key
Stores ==
  {{[key |-> k, Observacoes |-> f[k].Observacoes,
     created_at |-> f[k].created_at, updated_at |-> f[k].updated_at] :
      k \in {x \in Keys : f[x].present}} : f \in [Keys -> RowChoices]}

MergeInit ==
  /\ m_local \in Stores
  /\ m_remote \in Stores
  /\ m_result = MergeIdle
  /\ NoOverwriteCall
  /\ NoFetchCall
  /\ NoCheckpointCall
  /\ NoAvisoCall
  /\ NoCatalogCall
  /\ NoSync

\* merge_sqlite_dbs(m_local, m_remote, output)
MergeCall ==
  /\ ~m_result.called
  /\ LET m == merge_sqlite_dbs(m_local, m_remote)
     IN  m_result' = [called |-> TRUE, raised |-> m.raised,
                      failed_at |-> m.failed_at, output |-> m.output]
  /\ UNCHANGED <<m_local, m_remote, syncVars, overwriteVars, fetchVars, ckpt, aviso, cat>>

MergeNext == MergeCall

SpecMerge == MergeInit /\ [][MergeNext]_vars

(***************************************************************************)
(* SpecOverwrite: merge_sqlite_dbs on every pair of contents of one of the *)
(* three field-overwrite tables                                            *)
(***************************************************************************)
OverwriteRowChoices ==
  {[present |-> FALSE, over |-> "vA", other |-> 1]}
    \cup [present : {TRUE}, over : OverVals, other : OtherVals]

\* the contents that satisfy the table's constraints: one row per key, and
\* one row per id in the catalogs
OverwriteStores(table) ==
  {st \in {{[key |-> k, over |-> f[k].over, other |-> f[k].other] :
              k \in {x \in Keys : f[x].present}} : f \in [Keys -> OverwriteRowChoices]} :
     HasRowId(table) => \A r1, r2 \in st : r1.other = r2.other => r1 = r2}

OverwriteInit ==
  /\ o_table \in OverwriteTables
  /\ o_local \in OverwriteStores(o_table)
  /\ o_remote \in OverwriteStores(o_table)
  /\ o_result = MergeIdle
  /\ m_local = {} /\ m_remote = {} /\ m_result = MergeIdle
  /\ NoFetchCall
  /\ NoCheckpointCall
  /\ NoAvisoCall
  /\ NoCatalogCall
  /\ NoSync

\* merge_sqlite_dbs(local, remote, output), the table o_table of the stores
OverwriteCall ==
  /\ ~o_result.called
  /\ LET m == MergedOverwriteTable(o_table, o_local, o_remote)
     IN  o_result' = [called |-> TRUE, raised |-> m.raised,
                      failed_at |-> m.failed_at, output |-> m.output]
  /\ UNCHANGED <<o_table, o_local, o_remote, syncVars, cirurgiasVars, fetchVars, ckpt, aviso, cat>>

OverwriteNext == OverwriteCall

SpecOverwrite == OverwriteInit /\ [][OverwriteNext]_vars

(***************************************************************************)
(* SpecFetch: download_db_from_github(..., return_sha=True) on every       *)
(* answer to its GET                                                       *)
(***************************************************************************)
\* raises: requests.get raises (transport failure with requests); status 0
\* is the transport failure of the urllib fallback; json_ok: the body
\* parses as JSON; has_content: it holds a non-empty "content"
FetchReplies ==
  [raises : BOOLEAN, status : {200, 404, 500, 0}, json_ok : BOOLEAN,
   has_content : BOOLEAN, sha : {NoSha, 1}]

\* variant: the destination is opened for writing as soon as the answer is 200
DownloadOpensBeforeParsing(reply) ==
  IF reply.raises
    THEN [raised |-> TRUE, ok |-> FALSE, sha |-> NoSha, wrote |-> FALSE]
  ELSE IF reply.status # 200
    THEN [raised |-> FALSE, ok |-> FALSE, sha |-> NoSha, wrote |-> FALSE]
  ELSE IF ~reply.json_ok \/ ~reply.has_content
    THEN [raised |-> FALSE, ok |-> FALSE, sha |-> NoSha, wrote |-> TRUE]
  ELSE [raised |-> FALSE, ok |-> TRUE, sha |-> reply.sha, wrote |-> TRUE]

\* what download_db_from_github returns, (ok, sha), and whether it wrote
\* the blob to local_db_path
download_db_from_github(reply) ==
  IF reply.raises
    THEN [raised |-> TRUE, ok |-> FALSE, sha |-> NoSha, wrote |-> FALSE]
  ELSE IF reply.status = 404
    THEN [raised |-> FALSE, ok |-> FALSE, sha |-> NoSha, wrote |-> FALSE]
  ELSE IF reply.status # 200
    THEN [raised |-> FALSE, ok |-> FALSE, sha |-> NoSha, wrote |-> FALSE]
  ELSE IF ~reply.json_ok
    THEN [raised |-> FALSE, ok |-> FALSE, sha |-> NoSha, wrote |-> FALSE]
  ELSE IF ~reply.has_content
    THEN [raised |-> FALSE, ok |-> FALSE, sha |-> NoSha, wrote |-> FALSE]
  ELSE [raised |-> FALSE, ok |-> TRUE, sha |-> reply.sha, wrote |-> TRUE]

FetchInit ==
  /\ f_reply \in FetchReplies
  /\ f_result = FetchIdle
  /\ m_local = {} /\ m_remote = {} /\ m_result = MergeIdle
  /\ NoOverwriteCall
  /\ NoCheckpointCall
  /\ NoAvisoCall
  /\ NoCatalogCall
  /\ NoSync

FetchCall ==
  /\ ~f_result.called
  /\ LET d == download_db_from_github(f_reply)
     IN  f_result' = [called |-> TRUE, raised |-> d.raised, ok |-> d.ok,
                      sha |-> d.sha, wrote |-> d.wrote]
  /\ UNCHANGED <<f_reply, syncVars, cirurgiasVars, overwriteVars, ckpt, aviso, cat>>

FetchNext == FetchCall

SpecFetch == FetchInit /\ [][FetchNext]_vars

(***************************************************************************)
(* SpecCheckpoint: _checkpoint_sqlite, called twice in a row or as the     *)
(* first step of upload_db_to_github, on every store file, engine handle   *)
(* and environment of the bounded sets                                     *)
(***************************************************************************)
\* the logical writes committed to the store
Writes == {"w1", "w2"}

\* a store file: absent, or a main file and a write-ahead log that holds the
\* writes not yet in the main file
StoreFiles ==
  {AbsentStoreFile}
    \cup {StoreFile(m, w) : m \in SUBSET Writes, w \in SUBSET Writes}

Envs == [db_importable : BOOLEAN, fold_ok : BOOLEAN, optimize_ok : BOOLEAN]

\* variant: the fold overwrites the main file with the log
FoldedFileReplacesMain(file) == [file EXCEPT !.main = file.wal, !.wal = {}]

\* PRAGMA wal_checkpoint(TRUNCATE) that goes through: the log is applied
\* to the main file and emptied
FoldedFile(file) == [file EXCEPT !.main = file.main \cup file.wal, !.wal = {}]

\* dispose_engine(): the engine is disposed and _ENGINE is None
dispose_engine(engine) == "none"

\* except Exception: pass
CheckpointPropagates(env, file) == FALSE

(***************************************************************************)
(* _checkpoint_sqlite(path): dispose_engine when module db imports;        *)
(* sqlite3.connect creates the file when it is absent; the fold; PRAGMA    *)
(* optimize, which changes no row.  A fold that does not go through (an    *)
(* error, or a log that stays busy) leaves the file as it is.              *)
(***************************************************************************)
checkpoint_sqlite(file, engine, env) ==
  LET opened == IF file.exists THEN file ELSE StoreFile({}, {})
  IN  [file   |-> IF env.fold_ok THEN FoldedFile(opened) ELSE opened,
       engine |-> IF env.db_importable THEN dispose_engine(engine) ELSE engine,
       raised |-> CheckpointPropagates(env, opened)]

\* raw = f.read(), after _checkpoint_sqlite(local_db_path)
RawRead(before, after) == after.main

CheckpointInit ==
  /\ ckpt \in {[CheckpointIdle EXCEPT !.pre = f, !.file = f, !.engine = e, !.env = v] :
                  f \in StoreFiles, e \in {"open", "none"}, v \in Envs}
  /\ m_local = {} /\ m_remote = {} /\ m_result = MergeIdle
  /\ NoOverwriteCall
  /\ NoFetchCall
  /\ NoAvisoCall
  /\ NoCatalogCall
  /\ NoSync

\* upload_db_to_github up to b64: the file must exist, the checkpoint, the read
PublishLocalPart ==
  /\ ckpt.pc = "start"
  /\ IF ~ckpt.file.exists
       THEN ckpt' = [ckpt EXCEPT !.pc = "notfound"]
       ELSE LET ck == checkpoint_sqlite(ckpt.file, ckpt.engine, ckpt.env)
            IN  ckpt' = [ckpt EXCEPT !.file = ck.file, !.engine = ck.engine,
                                     !.raised = ck.raised,
                                     !.raw = IF ck.raised THEN {}
                                             ELSE RawRead(ckpt.file, ck.file),
                                     !.pc = IF ck.raised THEN "raised" ELSE "read"]
  /\ UNCHANGED <<syncVars, cirurgiasVars, overwriteVars, fetchVars, aviso, cat>>

\* _checkpoint_sqlite(path), the first call and the second call in a row
CheckpointCall ==
  /\ ckpt.pc \in {"start", "once"}
  /\ LET ck == checkpoint_sqlite(ckpt.file, ckpt.engine, ckpt.env)
     IN  ckpt' = [ckpt EXCEPT !.file = ck.file, !.engine = ck.engine,
                              !.raised = ck.raised,
                              !.after1 = IF ckpt.pc = "start"
                                           THEN [file |-> ck.file, engine |-> ck.engine]
                                           ELSE @,
                              !.pc = IF ck.raised THEN "raised"
                                     ELSE IF ckpt.pc = "start" THEN "once" ELSE "twice"]
  /\ UNCHANGED <<syncVars, cirurgiasVars, overwriteVars, fetchVars, aviso, cat>>

CheckpointNext == PublishLocalPart \/ CheckpointCall

SpecCheckpoint == CheckpointInit /\ [][CheckpointNext]_vars

(***************************************************************************)
(* SpecAviso: _normalize_and_resolve_aviso_conflicts on every data frame   *)
(* of the bounded sets.  A cell of column Aviso is NaN or a string, here   *)
(* a sequence of characters.                                               *)
(***************************************************************************)
MaxRows == 3

AvisoChars == {"1", "2", "x"}

\* a missing cell (NaN, None), told apart from every string
NaN == <<"NaN">>

IsDigit(ch) == ch \in {"1", "2"}

\* the cells of column Aviso in the file read: NaN, or a string of up to two
\* characters
RawAvisos ==
  {NaN} \cup {<<>>} \cup {<<a>> : a \in AvisoChars}
         \cup {<<a, b>> : a \in AvisoChars, b \in AvisoChars}

Atendimentos == {"a1", "a2"}

AvisoRows == [Data : {1}, Atendimento : Atendimentos, Aviso : RawAvisos]

DataFrames == UNION {[1..n -> AvisoRows] : n \in 0..MaxRows}

\* .astype(str): NaN becomes the string "nan", which holds no digit
AsStr(cell) == IF cell = NaN THEN <<"x", "x", "x">> ELSE cell

\* .str.extract(r"(\d+)", expand=False): the first run of digits, NaN when
\* the string holds no digit
ExtractDigits(str) ==
  LET digits == {i \in DOMAIN str : IsDigit(str[i])}
  IN  IF digits = {} THEN NaN
      ELSE LET from == CHOOSE i \in digits : \A j \in digits : i <= j
               to   == CHOOSE i \in digits :
                         /\ \A k \in from..i : k \in digits
                         /\ (i + 1) \notin digits
                         /\ i >= from
                         /\ \A j \in digits :
                              (j >= from /\ (\A k \in from..j : k \in digits)) => j <= i
           IN  SubSeq(str, from, to)

\* df["Aviso"] after the normalisation
NormalizedAviso(cell) == ExtractDigits(AsStr(cell))

\* s.value_counts()[x]
ValueCount(s, x) == Cardinality({i \in DOMAIN s : s[i] = x})

\* s.tolist().index(x)
FirstIndex(s, x) == CHOOSE i \in DOMAIN s : s[i] = x /\ \A j \in DOMAIN s : s[j] = x => i <= j

\* the order of the keys (len(x), s.tolist().index(x))
KeyLeq(s, x, y) ==
  \/ Len(x) < Len(y)
  \/ Len(x) = Len(y) /\ FirstIndex(s, x) <= FirstIndex(s, y)

\* _pick(series): the candidates of top count, sorted by key with
\* reverse=True, the first of them
pick(series) ==
  LET s == SelectSeq(series, LAMBDA v : v # NaN)
  IN  IF s = <<>> THEN NaN
      ELSE LET values     == {s[i] : i \in DOMAIN s}
               top_count  == CHOOSE n \in 1..Len(s) :
                               /\ \E x \in values : ValueCount(s, x) = n
                               /\ \A x \in values : ValueCount(s, x) <= n
               candidatos == {x \in values : ValueCount(s, x) = top_count}
           IN  CHOOSE x \in candidatos : \A y \in candidatos : KeyLeq(s, y, x)

\* the normalised Aviso cells of the rows of df in the group of row i, in
\* the order of df
GroupSeries(df, i) ==
  LET rows == SelectSeq(df, LAMBDA r : r.Data = df[i].Data
                                     /\ r.Atendimento = df[i].Atendimento)
  IN  [k \in DOMAIN rows |-> NormalizedAviso(rows[k].Aviso)]

\* df.groupby(["Data", "Atendimento"], dropna=False)["Aviso"].transform(_pick);
\* an empty df is returned as it is
normalize_and_resolve_aviso_conflicts(df) ==
  IF df = <<>> THEN df
  ELSE [i \in DOMAIN df |-> [df[i] EXCEPT !.Aviso = pick(GroupSeries(df, i))]]

AvisoInit ==
  /\ aviso \in {[called |-> FALSE, df |-> df, out |-> <<>>] : df \in DataFrames}
  /\ m_local = {} /\ m_remote = {} /\ m_result = MergeIdle
  /\ NoOverwriteCall
  /\ NoFetchCall
  /\ NoCheckpointCall
  /\ NoCatalogCall
  /\ NoSync

AvisoCall ==
  /\ ~aviso.called
  /\ aviso' = [aviso EXCEPT !.called = TRUE,
                            !.out = normalize_and_resolve_aviso_conflicts(aviso.df)]
  /\ UNCHANGED <<syncVars, cirurgiasVars, overwriteVars, fetchVars, ckpt, cat>>

AvisoNext == AvisoCall

SpecAviso == AvisoInit /\ [][AvisoNext]_vars

(***************************************************************************)
(* SpecCatalog: merge_sqlite_dbs on two stores that each hold the catalog  *)
(* procedimento_tipos (nome, id) and rows of cirurgias that refer to it by *)
(* Procedimento_Tipo_ID.  cirurgia_situacoes and Situacao_ID are merged by *)
(* statements of the same shape.                                           *)
(***************************************************************************)
CatalogNames == {"K1", "K2"}

\* rows of procedimento_tipos: key = nome (UNIQUE), other = id (PRIMARY KEY)
CatalogRows == [key : CatalogNames, over : {"vA"}, other : OtherVals]

Catalogs ==
  {t \in SUBSET CatalogRows :
     \A r1, r2 \in t : (r1.key = r2.key \/ r1.other = r2.other) => r1 = r2}

\* rows of cirurgias: natural key and Procedimento_Tipo_ID, NULL or the id
\* of a row of the store's own catalog
RefsTo(tipos) ==
  {c \in SUBSET [key : Keys, Procedimento_Tipo_ID : {Null} \cup {t.other : t \in tipos}] :
     UniqueKeys(c)}

CatalogStores ==
  UNION {{[tipos |-> t, cirurgias |-> c] : c \in RefsTo(t)} : t \in Catalogs}

\* the cirurgias statement on the column: the SELECT yields
\* l.Procedimento_Tipo_ID, and DO UPDATE SET Procedimento_Tipo_ID =
\* excluded.Procedimento_Tipo_ID
UpsertCirurgiaRefs(base, local) ==
  {r \in base : r.key \notin KeysOf(local)} \cup local

\* merge_sqlite_dbs, the tables procedimento_tipos and cirurgias of its
\* output: one transaction, a rejected statement leaves the copy of the remote
MergedCatalogStore(l_store, r_store) ==
  IF FirstRejected # 0
    THEN [raised |-> TRUE, output |-> r_store]
    ELSE [raised |-> FALSE,
          output |-> [tipos     |-> UpsertOverwrite("procedimento_tipos",
                                                    r_store.tipos, l_store.tipos),
                      cirurgias |-> UpsertCirurgiaRefs(r_store.cirurgias,
                                                       l_store.cirurgias)]]

CatalogInit ==
  /\ cat \in {[CatalogIdle EXCEPT !.local = l, !.remote = r] :
                 l \in CatalogStores, r \in CatalogStores}
  /\ m_local = {} /\ m_remote = {} /\ m_result = MergeIdle
  /\ NoOverwriteCall
  /\ NoFetchCall
  /\ NoCheckpointCall
  /\ NoAvisoCall
  /\ NoSync

CatalogCall ==
  /\ ~cat.called
  /\ LET m == MergedCatalogStore(cat.local, cat.remote)
     IN  cat' = [cat EXCEPT !.called = TRUE, !.raised = m.raised, !.output = m.output]
  /\ UNCHANGED <<syncVars, cirurgiasVars, overwriteVars, fetchVars, ckpt, aviso>>

CatalogNext == CatalogCall

SpecCatalog == CatalogInit /\ [][CatalogNext]_vars

(***************************************************************************)
(* Properties                                                              *)
(***************************************************************************)
Ended(r) == r.pc = "done"

Succeeded(r) == r.result.kind = "returned" /\ r.result.value.ok

\* the run went through the conflict path: 409, download, merge attempt
TookMergePath(r) == r.status = 409 /\ r.downloaded /\ r.merges = 1

C3_RemoteNewerWins ==
  m_result.called =>
    \A k \in KeysOf(m_local) \cap KeysOf(m_remote) :
      LET l == RowOf(m_local, k)
          r == RowOf(m_remote, k)
      IN  (l.updated_at # Null /\ r.updated_at # Null /\ r.updated_at > l.updated_at) =>
            /\ ~m_result.raised
            /\ k \in KeysOf(m_result.output)
            /\ RowOf(m_result.output, k).Observacoes = r.Observacoes
            /\ RowOf(m_result.output, k).updated_at = r.updated_at

(***************************************************************************)
(* C4 as stated: for every key in both stores with the local's updated_at  *)
(* newer, the merged row is the local row except created_at, which is the  *)
(* remote's when that is non-empty and the local's otherwise.              *)
(***************************************************************************)
NonEmpty(v) == v # Null /\ v # EmptyText

C4_SourceNewerWins ==
  m_result.called =>
    \A k \in KeysOf(m_local) \cap KeysOf(m_remote) :
      LET l == RowOf(m_local, k)
          r == RowOf(m_remote, k)
      IN  (l.updated_at # Null /\ r.updated_at # Null /\ l.updated_at > r.updated_at) =>
            /\ ~m_result.raised
            /\ k \in KeysOf(m_result.output)
            /\ RowOf(m_result.output, k) =
                 [l EXCEPT !.created_at =
                    IF NonEmpty(r.created_at) THEN r.created_at ELSE l.created_at]

(***************************************************************************)
(* C5 as stated: a run whose first publish, made with a stale token, got   *)
(* 409, that downloaded the remote, and after whose download nobody        *)
(* published, ended with the local file replaced by the merge, a second    *)
(* PUT carrying the downloaded revision, and success.                      *)
(***************************************************************************)
C5_ConflictRecovery ==
  \A c \in Clients :
    (/\ Ended(run[c]) /\ run[c].prev_sha # NoSha /\ run[c].status = 409
     /\ run[c].downloaded /\ remote.sha = run[c].remote_sha2) =>
      /\ Succeeded(run[c])
      /\ run[c].result.value.message = "Upload apos merge OK"
      /\ run[c].puts = 2
      /\ run[c].put_shas[2] = run[c].remote_sha2

(***************************************************************************)
(* C6 as stated: a run that got 409 for a stale token, downloaded a remote  *)
(* that differs from its local file, and after whose download another      *)
(* writer published, ends failed with status 409 and its local file is the *)
(* merged copy.                                                            *)
(***************************************************************************)
C6_SecondConflictKeepsMerged ==
  \A c \in Clients :
    (/\ Ended(run[c]) /\ run[c].prev_sha # NoSha /\ run[c].status = 409
     /\ run[c].downloaded /\ run[c].tmp_remote # run[c].orig.rows
     /\ run[c].result.kind = "returned"
     /\ remote.sha # run[c].remote_sha2) =>
      /\ ~run[c].result.value.ok /\ run[c].result.value.status = 409
      /\ ~run[c].merge.raised
      /\ localFile[c] = DbFile(run[c].merge.output)

(***************************************************************************)
(* C7: a run sends at most two PUTs, downloads at most once and merges at  *)
(* most once; a run that has not ended can take its next step; a run that  *)
(* has ended has returned a result or raised.                              *)
(***************************************************************************)
RunStep(c) == PreflightGet(c) \/ Put(c) \/ DownloadAndMerge(c)

C7_OneRetryCycle ==
  \A c \in Clients :
    /\ run[c].puts <= 2 /\ run[c].downloads <= 1 /\ run[c].merges <= 1
    /\ run[c].merges <= run[c].downloads
    /\ run[c].pc \in {"preflight", "put", "download"} => ENABLED RunStep(c)
    /\ Ended(run[c]) => run[c].result.kind \in {"returned", "raised"}

\* a run that conflicted, downloaded, tried the merge and ended
C7_Witness ==
  \E c \in Clients :
    Ended(run[c]) /\ run[c].puts = 1 /\ run[c].downloads = 1 /\ run[c].merges = 1

(***************************************************************************)
(* C9 as stated: a successful run returns the new revision token of the    *)
(* content it published.                                                   *)
(***************************************************************************)
C9_ReturnsNewToken ==
  \A c \in Clients :
    Succeeded(run[c]) =>
      /\ "new_sha" \in DOMAIN run[c].result.value
      /\ run[c].result.value.new_sha = run[c].published.sha

(***************************************************************************)
(* C9 amended: a successful run returns (ok, status, message) with status  *)
(* 200 or 201 and no token; the host's answer carried the revision of the  *)
(* content the run published, which stays inside the run.                  *)
(***************************************************************************)
C9_SuccessKnowsTokenReturnsNone ==
  \A c \in Clients :
    Succeeded(run[c]) =>
      /\ DOMAIN run[c].result.value = {"ok", "status", "message"}
      /\ run[c].result.value.status \in {200, 201}
      /\ run[c].accepted
      /\ run[c].published.sha # NoSha
      /\ (IF run[c].site = 1 THEN run[c].new_sha ELSE run[c].new_sha2)
           = run[c].published.sha

\* a run published rows and reported success
C9_Witness ==
  \E c \in Clients :
    Succeeded(run[c]) /\ run[c].published.rows # {} /\ remote = run[c].published

Failed(r) == Ended(r) /\ ~Succeeded(r)

(***************************************************************************)
(* C11: a failed sync never deletes or corrupts the local working copy.    *)
(* Whenever a run that started on a complete store has ended without       *)
(* success, the local file is a complete store, equal to the pre-attempt   *)
(* file or to the output of a merge that returned.                         *)
(***************************************************************************)
C11_FailedRunKeepsStore ==
  \A c \in Clients :
    (Failed(run[c]) /\ run[c].orig.kind = "db")
      => /\ localFile[c].kind = "db"
         /\ \/ localFile[c] = run[c].orig
            \/ /\ run[c].merges = 1 /\ ~run[c].merge.raised
               /\ localFile[c] = DbFile(run[c].merge.output)

\* a run has failed on the conflict path, the remote copy it downloaded
\* differing from its own store
C11_Witness ==
  \E c \in Clients :
    /\ Failed(run[c]) /\ run[c].orig.kind = "db"
    /\ run[c].result.kind = "returned"
    /\ run[c].status = 409 /\ run[c].downloaded
    /\ run[c].tmp_remote # run[c].orig.rows

C13_DownloadFailureReported ==
  \A c \in Clients :
    (Ended(run[c]) /\ run[c].status = 409 /\ run[c].downloads = 1 /\ ~run[c].downloaded)
      => /\ run[c].result =
              Returned(FALSE, 409, "Conflito 409, mas falha ao baixar remoto")
         /\ run[c].merges = 0
         /\ run[c].puts = 1
         /\ localFile[c] = run[c].orig

(***************************************************************************)
(* C14: direct failure.  When the first publish ends with a status other   *)
(* than 200, 201 and 409, the run ends failed with that status, without    *)
(* download, merge, replacement of the local file or second PUT.           *)
(***************************************************************************)
C14_DirectFailure ==
  \A c \in Clients :
    (Ended(run[c]) /\ run[c].status \notin {-1, 200, 201, 409})
      => /\ run[c].result = Returned(FALSE, run[c].status, "Falha inicial de upload")
         /\ run[c].downloads = 0
         /\ run[c].merges = 0
         /\ run[c].puts <= 1
         /\ localFile[c] = run[c].orig

\* a PUT was sent and came back 422, 500 or 0
C14_Witness ==
  \E c \in Clients :
    /\ Ended(run[c]) /\ run[c].puts = 1
    /\ run[c].status \in {422, 500}
    /\ run[c].orig.kind = "db"

(***************************************************************************)
(* C15: lost publish response.  When the PUT was applied by the host and   *)
(* its answer did not arrive (status 0), the run does not report failure:  *)
(* the remote is probed and the publish that landed is reported as such.   *)
(***************************************************************************)
C15_LostResponseProbed ==
  \A c \in Clients :
    (Ended(run[c]) /\ run[c].accepted /\ run[c].puts = 1
       /\ run[c].result.kind = "returned" /\ run[c].status = 0)
      => run[c].result.value.ok

(***************************************************************************)
(* C16: uniqueness after reconciliation.  merge_sqlite_dbs on two stores   *)
(* that satisfy the unique constraint returns, and no two rows of the      *)
(* merged table share a natural key.                                       *)
(***************************************************************************)
C16_UniqueAfterMerge ==
  m_result.called
    => /\ ~m_result.raised
       /\ UniqueKeys(m_result.output)

(***************************************************************************)
(* C17: rows on one side only survive unchanged.  For every key present    *)
(* in the local store only, or in the remote store only, the merged output *)
(* holds that side's row, equal in every column.                           *)
(***************************************************************************)
C17_OneSidedRowsSurvive ==
  m_result.called
    => /\ ~m_result.raised
       /\ \A k \in KeysOf(m_local) \ KeysOf(m_remote) :
            RowOf(m_local, k) \in m_result.output
       /\ \A k \in KeysOf(m_remote) \ KeysOf(m_local) :
            RowOf(m_remote, k) \in m_result.output

(***************************************************************************)
(* C18: field-overwrite policy.  For every key present on both sides of a  *)
(* field-overwrite table, the merged row has the local values in the       *)
(* overwrite columns (Aviso, Convenio, Quarto; ativo, ordem) and the       *)
(* remote values in the other columns (Ano, Mes, Dia; id).                 *)
(***************************************************************************)
C18_FieldOverwritePolicy ==
  o_result.called
    => /\ ~o_result.raised
       /\ \A k \in KeysOf(o_local) \cap KeysOf(o_remote) :
            /\ k \in KeysOf(o_result.output)
            /\ RowOf(o_result.output, k).over = RowOf(o_local, k).over
            /\ RowOf(o_result.output, k).other = RowOf(o_remote, k).other

(***************************************************************************)
(* C19: idempotence.  merge_sqlite_dbs(A, A, out) returns and the rows of  *)
(* the output are the rows of A.                                           *)
(***************************************************************************)
C19_MergeIdempotent ==
  (m_result.called /\ m_local = m_remote)
    => /\ ~m_result.raised
       /\ m_result.output = m_local

\* the content columns of a cirurgias row and its updated_at
ContentOf(rows, k) ==
  [Observacoes |-> RowOf(rows, k).Observacoes, updated_at |-> RowOf(rows, k).updated_at]

(***************************************************************************)
(* C20: order independence of the last-write-wins winner.  Both merge      *)
(* orders return; a key present in both stores with different updated_at   *)
(* has the same content and updated_at in merge(A, B) and merge(B, A), and *)
(* a key present in one store only has the same row in both.               *)
(***************************************************************************)
C20_WinnerOrderIndependent ==
  m_result.called
    => LET ab == m_result
           ba == merge_sqlite_dbs(m_remote, m_local)
       IN  /\ ~ab.raised /\ ~ba.raised
           /\ \A k \in KeysOf(m_local) \cap KeysOf(m_remote) :
                RowOf(m_local, k).updated_at # RowOf(m_remote, k).updated_at
                  => /\ k \in KeysOf(ab.output) \cap KeysOf(ba.output)
                     /\ ContentOf(ab.output, k) = ContentOf(ba.output, k)
           /\ \A k \in (KeysOf(m_local) \cup KeysOf(m_remote))
                        \ (KeysOf(m_local) \cap KeysOf(m_remote)) :
                /\ k \in KeysOf(ab.output) \cap KeysOf(ba.output)
                /\ RowOf(ab.output, k) = RowOf(ba.output, k)

(***************************************************************************)
(* C21: no spurious change on identical rows.  merge_sqlite_dbs returns,   *)
(* and for every key whose row is the same in both stores the merged row   *)
(* is the remote row in every column, created_at and updated_at included.  *)
(***************************************************************************)
C21_IdenticalRowsUntouched ==
  m_result.called
    => /\ ~m_result.raised
       /\ \A k \in KeysOf(m_local) \cap KeysOf(m_remote) :
            RowOf(m_local, k) = RowOf(m_remote, k)
              => RowOf(m_remote, k) \in m_result.output

(***************************************************************************)
(* C22: all-or-nothing reconciliation.  When a statement of                *)
(* merge_sqlite_dbs fails, the merge raises and its output holds none of   *)
(* the row changes (it is the copy of the remote); once the run has        *)
(* handled the failure the output file is unlinked and the local path      *)
(* holds the pre-attempt store.                                            *)
(***************************************************************************)
C22_AllOrNothing ==
  \A c \in Clients :
    (run[c].merges = 1 /\ run[c].merge.failed_at # 0)
      => /\ run[c].merge.raised
         /\ run[c].merge.output = run[c].tmp_remote
         /\ Ended(run[c])
              => /\ "tmp_merged" \in run[c].unlinked
                 /\ localFile[c] = run[c].orig

\* a statement failed while the local store held a row the remote copy lacks
C22_Witness ==
  \E c \in Clients :
    /\ Ended(run[c]) /\ run[c].merges = 1
    /\ run[c].merge.failed_at \in 1..Len(MergeStatements)
    /\ KeysOf(run[c].orig.rows) \ KeysOf(run[c].tmp_remote) # {}

\* the step in which the first PUT of c's run is sent and answered
FirstPutStep(c) == run[c].pc = "put" /\ run[c].site = 1 /\ run'[c].pc # "put"

(***************************************************************************)
(* C23: conditional update.  An upload given a revision sends exactly that *)
(* revision with its PUT and makes no preflight GET; when the remote's     *)
(* revision differs, the remote is left as it is, the upload is not ok and *)
(* yields no new revision, and the host's refusal is status 409.           *)
(***************************************************************************)
C23_ConditionalUpdate ==
  [][\A c \in Clients :
       (FirstPutStep(c) /\ run[c].prev_sha # NoSha)
         => /\ run'[c].put_shas = <<run[c].prev_sha>>
            /\ run'[c].preflight_status = -1
            /\ remote.sha # run[c].prev_sha
                 => /\ remote' = remote
                    /\ ~run'[c].accepted
                    /\ run'[c].new_sha = NoSha
                    /\ ~Succeeded(run'[c])
                    /\ run'[c].refused => run'[c].status = 409]_vars

\* a PUT carrying a stale revision has been refused
C23_Witness ==
  \E c \in Clients :
    /\ run[c].refused /\ run[c].puts = 1
    /\ run[c].prev_sha # NoSha
    /\ remote.exists /\ remote.sha # run[c].prev_sha
    /\ run[c].status = 409

\* a PUT was sent and upload_db_to_github returned a status other than
\* 200, 201 and 409
PutRejected(r) ==
  r.puts = 1 /\ r.site = 1 /\ r.status \notin {-1, 200, 201, 409}

FetchFailure(reply) ==
  \/ reply.raises
  \/ reply.status \notin {200, 404}
  \/ reply.status = 200 /\ ~reply.json_ok

(***************************************************************************)
(* C25: download_db_from_github reports a network or protocol failure as   *)
(* an outcome its caller can tell apart from the outcome of a clean 404,   *)
(* and the 404 as not-found without error.                                 *)
(***************************************************************************)
C25_FetchFailureDistinct ==
  f_result.called
    => LET clean == download_db_from_github(NotFoundReply)
       IN  /\ (~f_reply.raises /\ f_reply.status = 404)
                => (~f_result.raised /\ ~f_result.ok)
           /\ FetchFailure(f_reply)
                => <<f_result.raised, f_result.ok, f_result.sha>>
                     # <<clean.raised, clean.ok, clean.sha>>

\* a run without token whose probe found no content and whose one PUT got
\* a status back
BootstrapRun(r) ==
  /\ r.site = 1 /\ r.prev_sha = NoSha /\ r.orig.kind = "db"
  /\ r.preflight_status = 404 /\ r.puts = 1

(***************************************************************************)
(* C26: bootstrap create.  A publish without token of a non-empty local    *)
(* file against a locator that holds no content sends its PUT without      *)
(* revision; the host applies it as a create of the local content (201),   *)
(* and the upload is ok with the revision the host issued.  The PUT is     *)
(* refused only when content appeared after the probe.                     *)
(***************************************************************************)
C26_BootstrapCreate ==
  \A c \in Clients :
    BootstrapRun(run[c])
      => /\ run[c].put_shas = <<NoSha>>
         /\ run[c].refused => remote.exists
         /\ (run[c].accepted /\ run[c].status \in {200, 201})
              => /\ ~run[c].replaced.exists
                 /\ run[c].status = 201
                 /\ run[c].published.rows = run[c].orig.rows
                 /\ run[c].new_sha # NoSha
                      => /\ run[c].new_sha = run[c].published.sha
                         /\ Succeeded(run[c])

\* a store with a row was created on an empty locator
C26_Witness ==
  \E c \in Clients :
    /\ BootstrapRun(run[c]) /\ Succeeded(run[c])
    /\ run[c].status = 201
    /\ run[c].orig.rows # {}
    /\ remote.sha = run[c].new_sha

(***************************************************************************)
(* C27: empty payload.  When the local file is 0 bytes the publish returns *)
(* 422 without any GET or PUT, the remote is not touched, and the run ends *)
(* failed with that status without entering the merge path.                *)
(***************************************************************************)
C27_EmptyPayloadRejected ==
  \A c \in Clients :
    (run[c].pc # "idle" /\ run[c].orig.kind = "zero")
      => /\ Ended(run[c])
         /\ run[c].result = Returned(FALSE, 422, "Falha inicial de upload")
         /\ run[c].msg = "Local db file is empty (0 bytes)"
         /\ run[c].preflight_status = -1
         /\ run[c].puts = 0 /\ ~run[c].accepted
         /\ run[c].downloads = 0 /\ run[c].merges = 0
         /\ localFile[c] = run[c].orig

\* a run on a 0-byte file has ended while the remote holds content
C27_Witness ==
  \E c \in Clients :
    /\ Ended(run[c]) /\ run[c].orig.kind = "zero"
    /\ run[c].status = 422
    /\ remote.exists

\* every logical write committed before the call
CommittedBefore == ckpt.pre.main \cup ckpt.pre.wal

(***************************************************************************)
(* C28: checkpoint precedes transmission.  The bytes a publish reads for   *)
(* transmission are those of the file as the checkpoint, run before the    *)
(* read in the same call, left it, so they hold every logical write        *)
(* committed before the publish started.                                   *)
(***************************************************************************)
C28_ReadAfterCheckpoint ==
  ckpt.pc = "read"
    => /\ ckpt.file = checkpoint_sqlite(ckpt.pre, ckpt.engine, ckpt.env).file
       /\ ckpt.raw = ckpt.file.main
       /\ ckpt.raw = CommittedBefore

(***************************************************************************)
(* C29: checkpoint failure handling.  A failure of PRAGMA optimize is      *)
(* swallowed and the publish proceeds; a fold that fails and leaves        *)
(* committed writes in the log only is propagated, so a file that misses   *)
(* committed writes is never read for transmission.                        *)
(***************************************************************************)
C29_UnsafeFoldPropagated ==
  /\ ckpt.pc = "raised" => (~ckpt.env.fold_ok /\ ckpt.pre.wal # {})
  /\ ckpt.pc = "read" => ckpt.raw = CommittedBefore

RunOutcome(r) ==
  IF r.result.kind = "raised" THEN "exception"
  ELSE IF r.puts = 2 \/ r.status2 # -1
    THEN IF r.status2 \in {200, 201} THEN "success-merged"
         ELSE IF r.status2 = 409 THEN "conflict-unresolved"
         ELSE IF r.status2 = 0 THEN "transport-error"
         ELSE "rejected"
  ELSE IF r.merges = 1 THEN "merge-failed"
  ELSE IF r.downloads = 1 THEN "download-failed"
  ELSE IF r.status \in {200, 201} THEN "success-published"
  ELSE IF r.status = 0 THEN "transport-error"
  ELSE "rejected"

(***************************************************************************)
(* C31: outcome reporting.  Every run of safe_upload_with_merge that ends  *)
(* has returned a result, and the result tells what happened: two ended    *)
(* runs with the same result had the same outcome, so that a failed        *)
(* download or a failed merge is told apart from a second conflict.        *)
(***************************************************************************)
C31_OneClassifiableResult ==
  \A c \in Clients :
    Ended(run[c])
      => /\ run[c].result.kind = "returned"
         /\ \A d \in Clients :
              (Ended(run[d]) /\ run[d].result = run[c].result)
                => RunOutcome(run[d]) = RunOutcome(run[c])

\* the value the stated rule picks: most frequent, then longest, then first
\* seen
RuleLeq(s, x, y) ==
  \/ ValueCount(s, x) < ValueCount(s, y)
  \/ ValueCount(s, x) = ValueCount(s, y) /\ Len(x) < Len(y)
  \/ ValueCount(s, x) = ValueCount(s, y) /\ Len(x) = Len(y)
       /\ FirstIndex(s, x) >= FirstIndex(s, y)

RulePick(series) ==
  LET s == SelectSeq(series, LAMBDA v : v # NaN)
  IN  IF s = <<>> THEN NaN
      ELSE CHOOSE x \in {s[i] : i \in DOMAIN s} :
             \A y \in {s[i] : i \in DOMAIN s} : RuleLeq(s, y, x)

(***************************************************************************)
(* C32: Aviso tie-break.  After _normalize_and_resolve_aviso_conflicts     *)
(* every row holds the Aviso of its (Data, Atendimento) group that is most *)
(* frequent among the non-null values, among those the longest, among      *)
(* those the first seen in the order of the rows.                          *)
(***************************************************************************)
C32_AvisoTieBreak ==
  aviso.called
    => /\ Len(aviso.out) = Len(aviso.df)
       /\ \A i \in DOMAIN aviso.df :
            aviso.out[i].Aviso = RulePick(GroupSeries(aviso.df, i))

C34_AcceptedIsSuccess ==
  \A c \in Clients :
    (Ended(run[c]) /\ run[c].result.kind = "returned" /\ run[c].accepted
       /\ (run[c].status \in {200, 201} \/ run[c].status2 \in {200, 201}))
      => /\ run[c].result.value.ok
         /\ run[c].status \in {200, 201} => (run[c].downloads = 0 /\ run[c].merges = 0)

\* the nome of the catalog row that id identifies in tipos
NameOf(tipos, id) == (CHOOSE t \in tipos : t.other = id).key

(***************************************************************************)
(* C35: catalog references survive the merge.  merge_sqlite_dbs returns,   *)
(* and every local row of cirurgias whose Procedimento_Tipo_ID identified  *)
(* the catalog entry named N in the local store has, in the output, a      *)
(* Procedimento_Tipo_ID that identifies the entry named N of the output.   *)
(***************************************************************************)
C35_CatalogReferencesSurvive ==
  cat.called
    => /\ ~cat.raised
       /\ \A l \in cat.local.cirurgias :
            l.Procedimento_Tipo_ID # Null
              => LET o == RowOf(cat.output.cirurgias, l.key)
                 IN  /\ \E t \in cat.output.tipos : t.other = o.Procedimento_Tipo_ID
                     /\ NameOf(cat.output.tipos, o.Procedimento_Tipo_ID)
                          = NameOf(cat.local.tipos, l.Procedimento_Tipo_ID)

(***************************************************************************)
(* C36: the merge is a union of keys.  merge_sqlite_dbs returns, and in    *)
(* the catalog and in cirurgias the natural keys of the output are those   *)
(* of the local store together with those of the remote store, so that a   *)
(* row deleted on one side only is in the output.                          *)
(***************************************************************************)
C36_UnionOfKeys ==
  cat.called
    => /\ ~cat.raised
       /\ KeysOf(cat.output.tipos)
            = KeysOf(cat.local.tipos) \cup KeysOf(cat.remote.tipos)
       /\ KeysOf(cat.output.cirurgias)
            = KeysOf(cat.local.cirurgias) \cup KeysOf(cat.remote.cirurgias)

(***************************************************************************)
(* C37: tie on timestamps.  merge_sqlite_dbs returns, and for every key    *)
(* of cirurgias present in both stores with the same updated_at the merged *)
(* row has the content of the local row and the created_at of the remote   *)
(* row.                                                                    *)
(***************************************************************************)
C37_TieTakesLocalContent ==
  m_result.called
    => /\ ~m_result.raised
       /\ \A k \in KeysOf(m_local) \cap KeysOf(m_remote) :
            (RowOf(m_local, k).updated_at = RowOf(m_remote, k).updated_at
               /\ RowOf(m_local, k).updated_at # Null)
              => /\ k \in KeysOf(m_result.output)
                 /\ RowOf(m_result.output, k).Observacoes = RowOf(m_local, k).Observacoes
                 /\ RowOf(m_result.output, k).created_at = RowOf(m_remote, k).created_at

\* the larger of two timestamps, NULL being below every timestamp
LaterOf(a, b) == IF a = Null THEN b ELSE IF b = Null THEN a ELSE IF a > b THEN a ELSE b

(***************************************************************************)
(* C38: timestamp never moves back.  merge_sqlite_dbs returns, and for     *)
(* every key of cirurgias present in both stores the merged updated_at is  *)
(* the larger of the two, or the one that is not NULL when the other is.   *)
(***************************************************************************)
C38_UpdatedAtNeverMovesBack ==
  m_result.called
    => /\ ~m_result.raised
       /\ \A k \in KeysOf(m_local) \cap KeysOf(m_remote) :
            /\ k \in KeysOf(m_result.output)
            /\ RowOf(m_result.output, k).updated_at
                 = LaterOf(RowOf(m_local, k).updated_at, RowOf(m_remote, k).updated_at)

(***************************************************************************)
(* C39: a failed download leaves its destination untouched.                *)
(* download_db_from_github writes the destination only when the answer is  *)
(* 200 with a body that parses and holds content; on 404, another status,  *)
(* a body that does not parse or holds no content it returns not-found     *)
(* with no revision and has not written the destination.                   *)
(***************************************************************************)
C39_FailedDownloadWritesNothing ==
  f_result.called
    => /\ f_result.wrote
            => (~f_reply.raises /\ f_reply.status = 200
                  /\ f_reply.json_ok /\ f_reply.has_content)
       /\ (~f_reply.raises
             /\ (f_reply.status # 200 \/ ~f_reply.json_ok \/ ~f_reply.has_content))
            => (~f_result.raised /\ ~f_result.ok /\ f_result.sha = NoSha
                  /\ ~f_result.wrote)

\* an answer 200 whose body does not parse: nothing written
C39_Witness ==
  /\ f_result.called
  /\ f_reply.status = 200 /\ ~f_reply.raises /\ ~f_reply.json_ok
  /\ ~f_result.wrote /\ ~f_result.ok

(***************************************************************************)
(* C40: failed preflight issues no write.  When the preflight GET of a     *)
(* publish without token returned a status other than 200 and 404, the     *)
(* run sends no PUT, no content of the run reaches the remote, and the     *)
(* upload returns ok = false, no new revision and the preflight's status.  *)
(***************************************************************************)
C40_FailedPreflightNoWrite ==
  \A c \in Clients :
    run[c].preflight_status \notin {-1, 200, 404}
      => /\ run[c].prev_sha = NoSha
         /\ run[c].puts = 0 /\ run[c].put_shas = <<>>
         /\ ~run[c].accepted
         /\ run[c].status = run[c].preflight_status
         /\ run[c].new_sha = NoSha
         /\ run[c].msg = "Preflight GET failed"
         /\ Ended(run[c])
         /\ run[c].result =
              Returned(FALSE, run[c].preflight_status, "Falha inicial de upload")

\* a run whose preflight GET was answered 500 while the remote holds a file
C40_Witness ==
  \E c \in Clients :
    /\ Ended(run[c]) /\ run[c].preflight_status = 500
    /\ run[c].orig.kind = "db"
    /\ remote.exists

====
